---- MODULE Spec2Model ----
(***************************************************************************)
(* Model of scripts/zulip_emoji_merge_delegate.py: one invocation fetches  *)
(* the newest messages of the "PR reviews" channel, and for every message  *)
(* whose content matches the pull-request pattern removes the three status *)
(* reactions and adds the one the label selects.                           *)
(*                                                                         *)
(* Text is modelled as a sequence of characters.  The character "U" stands *)
(* for the fixed literal https://github.com/leanprover-community/mathlib4/ *)
(* pull/ ; "1", "2", "3" are digits and "x" is any other character.  A     *)
(* label is a sequence of chunks of text; the chunk "[Merged by Bors]" is  *)
(* the literal the script tests with startswith.                           *)
(*                                                                         *)
(* The chat service is the environment: it keeps, per message id, the set  *)
(* of emoji names present.  Each remote call has one of three outcomes:    *)
(* "ok" (the mutation is applied), "error" (the client returns an error    *)
(* result, which the script discards, and nothing is applied) and "raise"  *)
(* (the client raises, nothing is applied).                                *)
(***************************************************************************)
EXTENDS Integers, Sequences, FiniteSets, TLC

\* Bound of the model: the number of messages in the channel.
MaxMsgs == 2

\* "num_before": 5 of the get_messages request.
num_before == 5

StatusEmoji == {"peace_sign", "bors", "merge"}
Emoji == StatusEmoji \cup {"thumbs_up"}
Digits == {"1", "2", "3"}
Outcomes == {"ok", "error", "raise"}
None == [result |-> "unset"]

\* Inputs: sys.argv[4] (LABEL) and sys.argv[5] (pr_number).
Labels ==
  { <<"delegated">>,
    <<"ready-to-merge">>,
    <<"[Merged by Bors]", " pull request #42">>,
    <<"awaiting-review">>,
    <<"delegated", " (old)">>,
    <<"x", "[Merged by Bors]">> }
PrNumbers == { <<"1", "2">>, <<"1", "2", "3">> }

\* Message bodies: no link, a link to pull request 12 followed by text, a
\* link to pull request 123.
Contents ==
  { <<"x">>,
    <<"x", "U", "1", "2", "x">>,
    <<"U", "1", "2", "3">> }

VARIABLES
  LABEL,        \* sys.argv[4]
  pr_number,    \* sys.argv[5]
  channel,      \* the service: message id -> content
  reactions,    \* the service: message id -> set of emoji names present
  pc,           \* position of the script
  response,     \* result of client.get_messages
  messages,     \* response['messages']
  idx,          \* position of the for loop in messages
  has,          \* has_peace_sign, has_bors, has_merge of the current message
  calls,        \* history: add/remove calls issued in this run, in order
  fetched,      \* history: outcome of get_messages in this run
  status,       \* history: "clean", "error" (some result was an error), "raised"
  start,        \* history: reactions when this run started
  run           \* history: "first" or "second" invocation

vars == <<LABEL, pr_number, channel, reactions, pc, response, messages, idx,
          has, calls, fetched, status, start, run>>

----------------------------------------------------------------------------
\* Text operations

IsPrefix(p, s) == Len(p) <= Len(s) /\ SubSeq(s, 1, Len(p)) = p

\* re.escape: every character of the text becomes a pattern element that
\* matches that character literally.
re_escape(s) == [i \in 1..Len(s) |-> [lit |-> s[i]]]

\* (mutant) The pattern of the fixed literal alone, without the number.
pr_pattern_of_AnyNumber(n) == <<[lit |-> "U"]>>

\* re.compile(r'https://github\.com/leanprover-community/mathlib4/pull/'
\*            + re.escape(pr_number))
pr_pattern_of(n) == <<[lit |-> "U"]>> \o re_escape(n)

MatchesAt(pattern, text, k) ==
  /\ k + Len(pattern) - 1 <= Len(text)
  /\ \A i \in 1..Len(pattern) : text[k + i - 1] = pattern[i].lit

\* pattern.search(content): a match anywhere in the text.
search(pattern, text) == \E k \in 1..Len(text) : MatchesAt(pattern, text, k)

\* LABEL.startswith("[Merged by Bors]")
startswith(label, prefix) == IsPrefix(prefix, label)

----------------------------------------------------------------------------
\* The chat service

\* One element of message['reactions'].
ReactionRecords(es) == {[emoji_name |-> e] : e \in es}

\* get_messages with anchor "newest", num_before 5, num_after 0: the newest
\* num_before messages of the channel, oldest first, each with its id, its
\* content and the reactions present at the time of the call.
Window(ch, re) ==
  LET n == Len(ch)
      first == IF n > num_before THEN n - num_before + 1 ELSE 1
  IN  [k \in 1..(n - first + 1) |->
         [id |-> first + k - 1,
          content |-> ch[first + k - 1],
          reactions |-> ReactionRecords(re[first + k - 1])]]

\* Effect of a reaction call the service accepts.
Apply(re, op, id, emoji) ==
  [re EXCEPT ![id] = IF op = "add" THEN @ \cup {emoji} ELSE @ \ {emoji}]

----------------------------------------------------------------------------
\* Initial states: a channel of at most MaxMsgs messages.  A channel of one
\* message carries any set of reactions; in longer channels every message
\* carries either no reaction or all of them.

InitialReactions(n) == IF n = 1 THEN SUBSET Emoji ELSE {{}, Emoji}

Init ==
  /\ LABEL \in Labels
  /\ pr_number \in PrNumbers
  /\ \E n \in 0..MaxMsgs :
       /\ channel \in [1..n -> Contents]
       /\ reactions \in [1..n -> InitialReactions(n)]
  /\ start = reactions
  /\ pc = "get_messages"
  /\ response = None
  /\ messages = <<>>
  /\ idx = 1
  /\ has = [peace_sign |-> FALSE, bors |-> FALSE, merge |-> FALSE]
  /\ calls = <<>>
  /\ fetched = "no"
  /\ status = "clean"
  /\ run = "first"

----------------------------------------------------------------------------
\* The script

pr_pattern == pr_pattern_of(pr_number)

\* (mutant) The exception is caught and the script goes on.
OnRaise_Swallow(next) == next

\* An exception no handler catches ends the script.
OnRaise(next) == "aborted"

\* (mutant) The loop stops after the first message it reconciled.
AfterReconciliation_Break(i, msgs) == Len(msgs) + 1

\* The for loop has no break: after a message it takes the next one.
AfterReconciliation(i, msgs) == i + 1

\* (mutant) The id of the first fetched message.
TargetId_First(msgs, i) == msgs[1].id

\* message['id'] of the message the loop is at.
TargetId(msgs, i) == msgs[i].id

\* (mutant) response.get('messages', []): no error on a missing key.
ReadResult_Default(resp) ==
  IF "messages" \in DOMAIN resp
  THEN [ok |-> TRUE, messages |-> resp.messages]
  ELSE [ok |-> TRUE, messages |-> <<>>]

\* response['messages']: a KeyError when the result has no such key.
ReadResult(resp) ==
  IF "messages" \in DOMAIN resp
  THEN [ok |-> TRUE, messages |-> resp.messages]
  ELSE [ok |-> FALSE, messages |-> <<>>]

\* (mutant) The third test compares the whole label instead of its start.
Branch_ExactMerged(label, h) ==
  IF <<"delegated">> \in {label} THEN "add76"
  ELSE IF <<"ready-to-merge">> \in {label}
       THEN (IF h.peace_sign THEN "remove82" ELSE "add86")
  ELSE IF label = <<"[Merged by Bors]">>
       THEN (IF h.peace_sign THEN "remove92"
             ELSE IF h.bors THEN "remove97" ELSE "add101")
  ELSE "for"

\* (mutant) The third test looks for the literal anywhere in the label.
Branch_Contains(label, h) ==
  IF <<"delegated">> \in {label} THEN "add76"
  ELSE IF <<"ready-to-merge">> \in {label}
       THEN (IF h.peace_sign THEN "remove82" ELSE "add86")
  ELSE IF \E k \in 1..Len(label) : label[k] = "[Merged by Bors]"
       THEN (IF h.peace_sign THEN "remove92"
             ELSE IF h.bors THEN "remove97" ELSE "add101")
  ELSE "for"

\* (mutant) delegated adds peace_sign only when the snapshot lacked it.
Branch_SkipIfPresent(label, h) ==
  IF <<"delegated">> \in {label}
  THEN (IF h.peace_sign THEN "for" ELSE "add76")
  ELSE IF <<"ready-to-merge">> \in {label}
       THEN (IF h.peace_sign THEN "remove82" ELSE "add86")
  ELSE IF startswith(label, <<"[Merged by Bors]">>)
       THEN (IF h.peace_sign THEN "remove92"
             ELSE IF h.bors THEN "remove97" ELSE "add101")
  ELSE "for"

\* The chain of if/elif at lines 75, 80, 90, with labels = [LABEL]: the
\* first call site of the branch the label selects, or the next iteration
\* of the loop when it selects none.
Branch(label, h) ==
  IF <<"delegated">> \in {label} THEN "add76"
  ELSE IF <<"ready-to-merge">> \in {label}
       THEN (IF h.peace_sign THEN "remove82" ELSE "add86")
  ELSE IF startswith(label, <<"[Merged by Bors]">>)
       THEN (IF h.peace_sign THEN "remove92"
             ELSE IF h.bors THEN "remove97" ELSE "add101")
  ELSE "for"

\* (mutant) bors is removed at line 65 only when the snapshot had it.
NextSite_GuardedRemoval(site, label, h) ==
  CASE site = "remove61" -> IF h.bors THEN "remove65" ELSE "remove69"
    [] site = "remove65" -> "remove69"
    [] site = "remove69" -> Branch(label, h)
    [] site = "remove82" -> "add86"
    [] site = "remove92" -> IF h.bors THEN "remove97" ELSE "add101"
    [] site = "remove97" -> "add101"
    [] OTHER -> "for"

\* The call site reached after the call site `site` completed.
NextSite(site, label, h) ==
  CASE site = "remove61" -> "remove65"
    [] site = "remove65" -> "remove69"
    [] site = "remove69" -> Branch(label, h)
    [] site = "remove82" -> "add86"
    [] site = "remove92" -> IF h.bors THEN "remove97" ELSE "add101"
    [] site = "remove97" -> "add101"
    [] OTHER -> "for"

\* client.get_messages(...), lines 29-34.
GetMessages ==
  /\ pc = "get_messages"
  /\ \E outcome \in Outcomes :
       /\ fetched' = outcome
       /\ status' = CASE outcome = "ok" -> status
                      [] outcome = "error" -> "error"
                      [] outcome = "raise" -> "raised"
       /\ response' = CASE outcome = "ok" ->
                             [result |-> "success",
                              messages |-> Window(channel, reactions)]
                        [] outcome = "error" -> [result |-> "error"]
                        [] outcome = "raise" -> response
       /\ pc' = IF outcome = "raise" THEN OnRaise("read") ELSE "read"
  /\ UNCHANGED <<LABEL, pr_number, channel, reactions, messages, idx, has,
                 calls, start, run>>

\* messages = response['messages'], line 38: a KeyError when the result has
\* no such key.
ReadMessages ==
  /\ pc = "read"
  /\ IF ReadResult(response).ok
     THEN /\ messages' = ReadResult(response).messages
          /\ idx' = 1
          /\ pc' = "for"
          /\ status' = status
     ELSE /\ pc' = OnRaise("for")
          /\ status' = "raised"
          /\ UNCHANGED <<messages, idx>>
  /\ UNCHANGED <<LABEL, pr_number, channel, reactions, response, has, calls,
                 fetched, start, run>>

\* for message in messages / match = pr_pattern.search(content) / the three
\* has_* snapshots, lines 44-54.
ForMessage ==
  /\ pc = "for"
  /\ IF idx > Len(messages)
     THEN /\ pc' = "done"
          /\ UNCHANGED <<idx, has>>
     ELSE LET message == messages[idx] IN
          IF search(pr_pattern, message.content)
          THEN /\ has' =
                    [peace_sign |-> \E r \in message.reactions :
                                       r.emoji_name = "peace_sign",
                     bors |-> \E r \in message.reactions :
                                 r.emoji_name = "bors",
                     merge |-> \E r \in message.reactions :
                                  r.emoji_name = "merge"]
               /\ pc' = "remove61"
               /\ idx' = idx
          ELSE /\ idx' = idx + 1
               /\ UNCHANGED <<pc, has>>
  /\ UNCHANGED <<LABEL, pr_number, channel, reactions, response, messages,
                 calls, fetched, status, start, run>>

\* client.add_reaction / client.remove_reaction at the call site `site`,
\* for messages[idx]['id'], then the code up to the next call site.
ReactionCall(site, op, emoji) ==
  /\ pc = site
  /\ \E outcome \in Outcomes :
       LET id == TargetId(messages, idx)
           next == NextSite(site, LABEL, has)
       IN  /\ calls' = Append(calls, [op |-> op, id |-> id, emoji |-> emoji])
           /\ reactions' = IF outcome = "ok"
                           THEN Apply(reactions, op, id, emoji)
                           ELSE reactions
           /\ status' = CASE outcome = "ok" -> status
                          [] outcome = "error" -> "error"
                          [] outcome = "raise" -> "raised"
           /\ pc' = IF outcome = "raise" THEN OnRaise(next) ELSE next
           /\ idx' = IF pc' = "for"
                     THEN AfterReconciliation(idx, messages)
                     ELSE idx
  /\ UNCHANGED <<LABEL, pr_number, channel, response, messages, has, fetched,
                 start, run>>

RemovePeaceSign61 == ReactionCall("remove61", "remove", "peace_sign")
RemoveBors65 == ReactionCall("remove65", "remove", "bors")
RemoveMerge69 == ReactionCall("remove69", "remove", "merge")
AddPeaceSign76 == ReactionCall("add76", "add", "peace_sign")
RemovePeaceSign82 == ReactionCall("remove82", "remove", "peace_sign")
AddBors86 == ReactionCall("add86", "add", "bors")
RemovePeaceSign92 == ReactionCall("remove92", "remove", "peace_sign")
RemoveBors97 == ReactionCall("remove97", "remove", "bors")
AddMerge101 == ReactionCall("add101", "add", "merge")

\* The calling workflow invokes the script a second time, in succession,
\* with the same arguments, after an invocation that completed with every
\* remote call accepted.
Rerun ==
  /\ pc = "done"
  /\ status = "clean"
  /\ run = "first"
  /\ run' = "second"
  /\ pc' = "get_messages"
  /\ response' = None
  /\ messages' = <<>>
  /\ idx' = 1
  /\ has' = [peace_sign |-> FALSE, bors |-> FALSE, merge |-> FALSE]
  /\ calls' = <<>>
  /\ fetched' = "no"
  /\ status' = "clean"
  /\ start' = reactions
  /\ UNCHANGED <<LABEL, pr_number, channel, reactions>>

Next ==
  \/ GetMessages
  \/ ReadMessages
  \/ ForMessage
  \/ RemovePeaceSign61
  \/ RemoveBors65
  \/ RemoveMerge69
  \/ AddPeaceSign76
  \/ RemovePeaceSign82
  \/ AddBors86
  \/ RemovePeaceSign92
  \/ RemoveBors97
  \/ AddMerge101
  \/ Rerun

Spec == Init /\ [][Next]_vars

----------------------------------------------------------------------------
\* Vocabulary of the properties, defined on the text and on the history of
\* calls, independently of the script's own operators.

Ids == DOMAIN channel

\* The text contains the link text of pull request n (the fixed literal
\* followed by the characters of n) somewhere.
ContainsLinkText(text, n) ==
  \E k \in 1..Len(text) :
    /\ k + Len(n) <= Len(text)
    /\ SubSeq(text, k, k + Len(n)) = <<"U">> \o n

\* The digits of the text from position k up to the first non-digit.
RECURSIVE DigitsFrom(_, _)
DigitsFrom(text, k) ==
  IF k > Len(text) \/ text[k] \notin Digits
  THEN <<>>
  ELSE <<text[k]>> \o DigitsFrom(text, k + 1)

\* The pull requests the text links: the whole number after each literal.
LinkedPullRequests(text) ==
  {DigitsFrom(text, k + 1) : k \in {j \in 1..Len(text) : text[j] = "U"}}

ProperPrefix(p, s) == Len(p) < Len(s) /\ SubSeq(s, 1, Len(p)) = p

CallsFor(id) == SelectSeq(calls, LAMBDA c : c.id = id)
CalledIds == {calls[k].id : k \in 1..Len(calls)}
Status(es) == es \cap StatusEmoji

\* The fetched messages whose content contains the link text, in the order
\* returned.
MatchPositions ==
  {k \in 1..Len(messages) : ContainsLinkText(messages[k].content, pr_number)}

----------------------------------------------------------------------------
\* C1 (as claimed): a fetched message that links a pull request of which
\* pr_number is a proper prefix, and that does not link pr_number itself,
\* is not matched: no add-reaction or remove-reaction call is issued for it.
C1_ExactSuffixMatch ==
  \A id \in Ids :
    ( /\ \E n \in LinkedPullRequests(channel[id]) : ProperPrefix(pr_number, n)
      /\ pr_number \notin LinkedPullRequests(channel[id]) )
    => id \notin CalledIds

\* C2 (as claimed): only the first fetched message that contains the link is
\* reconciled: every call issued targets that message.
C2_OnlyFirstMatch ==
  \A k \in 1..Len(calls) :
    \A p \in MatchPositions :
      (\A q \in MatchPositions : p <= q) => calls[k].id = messages[p].id

\* C2 (amended): every fetched message that contains the link text is
\* reconciled, in the order returned: calls are issued in the order of the
\* messages, and when the loop ends each such message has received calls.
C2_EveryMatchReconciled ==
  /\ \A j \in 1..Len(calls) : \A k \in j..Len(calls) :
       calls[j].id <= calls[k].id
  /\ pc = "done" =>
       \A p \in MatchPositions : messages[p].id \in CalledIds

C2_Witness ==
  /\ pc = "done"
  /\ \E p \in MatchPositions : \E q \in MatchPositions :
       /\ p < q
       /\ pr_number \in LinkedPullRequests(messages[p].content)
       /\ pr_number \in LinkedPullRequests(messages[q].content)
       /\ {messages[p].id, messages[q].id} \subseteq CalledIds

\* The label, as the properties read it.
IsDelegated == LABEL = <<"delegated">>
IsReadyToMerge == LABEL = <<"ready-to-merge">>
IsMergedByBors == Len(LABEL) >= 1 /\ Head(LABEL) = "[Merged by Bors]"
MatchedIds == {messages[p].id : p \in MatchPositions}

\* C3: when the run ends with every remote call accepted, each matched
\* message carries, of the three status reactions, exactly the one the label
\* selects: peace_sign for delegated, bors for ready-to-merge, merge for a
\* label that begins with [Merged by Bors].
C3_LabelSelectsReaction ==
  (pc = "done" /\ status = "clean") =>
    \A id \in MatchedIds :
      /\ IsDelegated => Status(reactions[id]) = {"peace_sign"}
      /\ IsReadyToMerge => Status(reactions[id]) = {"bors"}
      /\ IsMergedByBors => Status(reactions[id]) = {"merge"}

C3_Witness ==
  /\ pc = "done" /\ status = "clean" /\ run = "first"
  /\ IsMergedByBors
  /\ \E id \in MatchedIds :
       /\ Status(start[id]) = StatusEmoji
       /\ Status(reactions[id]) = {"merge"}

\* C4: for a label that is none of the three, no add-reaction call is
\* issued, and when the run ends with every remote call accepted each
\* matched message carries none of the three status reactions.
C4_OtherLabelClears ==
  (~IsDelegated /\ ~IsReadyToMerge /\ ~IsMergedByBors) =>
    /\ \A k \in 1..Len(calls) : calls[k].op # "add"
    /\ (pc = "done" /\ status = "clean") =>
         \A id \in MatchedIds : Status(reactions[id]) = {}

C4_Witness ==
  /\ pc = "done" /\ status = "clean" /\ run = "first"
  /\ LABEL = <<"x", "[Merged by Bors]">>
  /\ \E id \in MatchedIds :
       /\ Status(start[id]) = StatusEmoji
       /\ Status(reactions[id]) = {}

C6_Idempotent ==
  (run = "second" /\ pc = "done" /\ status = "clean") =>
    \A id \in Ids : Status(reactions[id]) = Status(start[id])

C6_Witness ==
  /\ run = "second" /\ pc = "done" /\ status = "clean"
  /\ IsDelegated
  /\ \E id \in MatchedIds :
       Len(CallsFor(id)) = 4 /\ Status(reactions[id]) = {"peace_sign"}

\* C7 (as claimed): once a remote call of the run has failed, no later
\* add-reaction or remove-reaction call is issued.
C7_NoCallAfterFailure ==
  [][(status # "clean" /\ run' = run) => calls' = calls]_vars

\* C7 (amended): a call that raises changes no reaction, and after it no
\* call is issued and no reaction changes (no retry, no rollback).
C7_RaiseAborts ==
  [][ /\ (status # "raised" /\ status' = "raised") => reactions' = reactions
      /\ status = "raised" => (calls' = calls /\ reactions' = reactions)
    ]_vars

C7_Witness ==
  /\ status = "raised" /\ pc = "aborted"
  /\ Len(calls) = 4 /\ calls[4].op = "add"
  /\ \E id \in CalledIds :
       Status(start[id]) # {} /\ Status(reactions[id]) = {}

\* C8: when get_messages fails (an error result or an exception) the script
\* aborts at line 38 at the latest: no add-reaction or remove-reaction call
\* is issued and no reaction changes.
C8_FetchFailureAborts ==
  fetched \in {"error", "raise"} =>
    /\ calls = <<>>
    /\ reactions = start
    /\ pc \in {"read", "aborted"}

C8_Witness ==
  /\ fetched = "error" /\ pc = "aborted"
  /\ \E id \in Ids :
       ContainsLinkText(channel[id], pr_number) /\ Status(reactions[id]) # {}

\* C9: the calls for a message are, in this order, remove peace_sign,
\* remove bors, remove merge, then what the branch issues; an add-reaction
\* call is the last call for its message and comes after the three removals
\* (so there is at most one); a run that reaches the end of the loop has
\* issued the three removals for every matched message.
C9_CallOrder ==
  \A id \in Ids :
    LET s == CallsFor(id) IN
    /\ Len(s) >= 1 => s[1] = [op |-> "remove", id |-> id, emoji |-> "peace_sign"]
    /\ Len(s) >= 2 => s[2] = [op |-> "remove", id |-> id, emoji |-> "bors"]
    /\ Len(s) >= 3 => s[3] = [op |-> "remove", id |-> id, emoji |-> "merge"]
    /\ \A k \in 1..Len(s) : s[k].op = "add" => (k = Len(s) /\ k > 3)
    /\ (pc = "done" /\ id \in MatchedIds) => Len(s) >= 3

C9_Witness ==
  /\ pc = "done"
  /\ \E id \in MatchedIds :
       /\ Status(start[id]) = {}
       /\ Len(CallsFor(id)) = 4
       /\ CallsFor(id)[4].op = "add"

\* C10: every call targets a message whose content contains the link text
\* and one of the three status emoji; reactions with another emoji name and
\* all reactions of the other messages stay as they were when the run
\* started.
C10_Frame ==
  /\ \A k \in 1..Len(calls) :
       /\ calls[k].emoji \in StatusEmoji
       /\ calls[k].id \in Ids
       /\ ContainsLinkText(channel[calls[k].id], pr_number)
  /\ \A id \in Ids :
       /\ reactions[id] \ StatusEmoji = start[id] \ StatusEmoji
       /\ ~ContainsLinkText(channel[id], pr_number) =>
            reactions[id] = start[id]

C10_Witness ==
  /\ pc = "done"
  /\ \E a \in Ids : \E b \in Ids :
       /\ ~ContainsLinkText(channel[a], pr_number)
       /\ reactions[a] = Emoji
       /\ b \in CalledIds
       /\ a < b
       /\ "thumbs_up" \in reactions[b]
       /\ Status(reactions[b]) # Status(start[b])

====
